---- MODULE Spec2Model ----
(***************************************************************************)
(* A model of src/src/process_udl_json.py: the pipeline that reads JSON    *)
(* files, groups their records into chunks, normalizes each chunk into a   *)
(* typed frame, removes duplicate keys and writes the frame to a dataset   *)
(* partitioned by epoch_date.                                              *)
(*                                                                         *)
(* Values.  A JSON value or a frame cell is a record [t, v]: t is the      *)
(* Python type and v the payload.  A float carries twice its value, so     *)
(* that 5.5 is PyFloat(11) and 5.0 is PyFloat(10); a timestamp carries    *)
(* hours since 2024-01-01T00:00Z, a date days since 2024-01-01.            *)
(* None, NaN, pd.NA and NaT are all the one value Null: pd.isna is true of *)
(* each of them and the code never tells them apart.                       *)
(***************************************************************************)
EXTENDS Integers, Sequences, FiniteSets

VARIABLES
    files,       \* raw_dir: file name -> file content
    chunk_size,  \* the chunk_size argument of to_chunks
    todo,        \* json_files still to be processed, in processing order
    cur,         \* name of the file being processed ("" when none)
    src,         \* the record iterator of cur: [mode, body, pos, raised]
    buf,         \* to_chunks: the buffer being filled
    chunk,       \* the chunk handed to the loop body
    df,          \* the frame of the loop body
    has_ijson,   \* HAS_IJSON: whether the import of ijson succeeded
    pc,          \* where process_all_json is
    dataset,     \* the sequence of pq.write_to_dataset calls made so far
    hist         \* history: what was read, yielded and processed so far

vars ==
    <<files, chunk_size, todo, cur, src, buf, chunk, df, has_ijson, pc, dataset, hist>>

----------------------------------------------------------------------------
(* Column lists                                                            *)

DATE_COLS == {"epoch", "createdAt", "effectiveFrom", "effectiveUntil"}

NUMERIC_AS_FLOAT ==
    {"agom", "apogee", "perigee", "semiMajorAxis", "period",
     "eccentricity", "inclination", "meanAnomaly", "raan", "argOfPerigee",
     "bStar", "meanMotion", "meanMotionDot", "meanMotionDDot", "ballisticCoeff"}

NUMERIC_AS_INT == {"satNo", "revNo", "idElset", "idOnOrbit", "idOrbitDetermination"}

OBJECTY_TO_JSON == {"tags"}

ALWAYS_STR_COLUMNS ==
    {"uct", "classificationMarking", "origin", "source", "sourceDL",
     "descriptor", "createdBy", "transactionId", "tags"}

\* sample sizes of the two "quick peek" loops of normalize_chunk
PEEK_NONSCALAR == 10
PEEK_MIXED == 20

----------------------------------------------------------------------------
(* Values                                                                  *)

Null == [t |-> "null", v |-> 0]
PyBool(b) == [t |-> "bool", v |-> b]
PyInt(n) == [t |-> "int", v |-> n]
PyFloat(h) == [t |-> "float", v |-> h]
PyStr(s) == [t |-> "str", v |-> s]
PyList(l) == [t |-> "list", v |-> l]
Timestamp(h) == [t |-> "ts", v |-> h]
PyDate(d) == [t |-> "date", v |-> d]

isna(x) == x.t = "null"

Range(s) == {s[i] : i \in DOMAIN s}

\* Series.dropna().head(k).tolist()
DropnaHead(s, k) ==
    LET nn == SelectSeq(s, LAMBDA x : ~isna(x))
    IN  SubSeq(nn, 1, IF Len(nn) < k THEN Len(nn) ELSE k)

(* Texts.  TLC has no string operations, so each conversion between a      *)
(* value and its text is a table over the texts and values of the model.   *)

\* str(x) of a number
NumberText ==
    << <<PyInt(5), "5">>, <<PyInt(7), "7">>, <<PyFloat(10), "5.0">>,
       <<PyFloat(11), "5.5">>, <<PyFloat(14), "7.0">> >>

\* ISO-8601 texts: local day, local hour and UTC offset in hours
IsoText ==
    << <<"2024-01-01T00:00:00Z", [day |-> 0, hour |-> 0, off |-> 0]>>,
       <<"2024-01-01T23:00:00-02:00", [day |-> 0, hour |-> 23, off |-> -2]>>,
       <<"2024-01-02T01:00:00+03:00", [day |-> 1, hour |-> 1, off |-> 3]>>,
       <<"2024-01-02T12:00:00Z", [day |-> 1, hour |-> 12, off |-> 0]>> >>

\* json.dumps of a list of strings
ListText ==
    << << <<>>, "[]" >>, << <<"x", "y">>, "[\"x\", \"y\"]" >> >>

\* str() of a calendar date, as the hive directory name spells it
DateText ==
    << <<-1, "2023-12-31">>, <<0, "2024-01-01">>, <<1, "2024-01-02">>,
       <<2, "2024-01-03">> >>

Lookup(table, k, default) ==
    IF \E i \in DOMAIN table : table[i][1] = k
    THEN (CHOOSE p \in Range(table) : p[1] = k)[2]
    ELSE default

json_dumps(x) == PyStr(Lookup(ListText, x.v, "?"))

\* str(x) for the scalars of the model
str_of(x) ==
    IF x.t = "str" THEN x
    ELSE PyStr(Lookup(NumberText, x, "?"))

\* the number a text spells, Null when it spells none (errors="coerce")
ParseNumber(s) ==
    IF \E i \in DOMAIN NumberText : NumberText[i][2] = s
    THEN (CHOOSE p \in Range(NumberText) : p[2] = s)[1]
    ELSE Null

\* a faulty variant of ParseTimestampUtc that drops the UTC offset of the text
ParseTimestampNaive(s) ==
    LET p == Lookup(IsoText, s, [day |-> 0, hour |-> 0, off |-> 99])
    IN  IF p.off = 99 THEN Null
        ELSE Timestamp(p.day * 24 + p.hour)

\* the UTC instant a text spells, Null when it spells none (errors="coerce")
ParseTimestampUtc(s) ==
    LET p == Lookup(IsoText, s, [day |-> 0, hour |-> 0, off |-> 99])
    IN  IF p.off = 99 THEN Null
        ELSE Timestamp(p.day * 24 + p.hour - p.off)

----------------------------------------------------------------------------
(* Frames.  A frame is column-major: n rows, the set cols of column names, *)
(* dtype[c] the pandas dtype of column c and data[c] its n cells.  error   *)
(* is "" for a frame and names the exception when the step that should     *)
(* have produced the frame raised instead.                                 *)

Raised(e) == [n |-> 0, cols |-> {}, dtype |-> <<>>, data |-> <<>>, error |-> e]

NoFrame == Raised("none")

Row(f, i) == [c \in f.cols |-> f.data[c][i]]

MapCol(s, Op(_)) == [i \in DOMAIN s |-> Op(s[i])]

\* the dtype pandas infers for a column built from Python objects.  (ijson
\* hands a non-integer number over as a Decimal, which pandas types object;
\* such numbers occur in the model only in columns of the numeric lists,
\* where to_numeric then gives the float64 column described here.)
InferDtype(s) ==
    LET nn == {x \in Range(s) : ~isna(x)}
        hasNull == \E x \in Range(s) : isna(x)
    IN  IF nn = {} THEN "object"
        ELSE IF \A x \in nn : x.t = "bool" THEN (IF hasNull THEN "object" ELSE "bool")
        ELSE IF \A x \in nn : x.t = "int" THEN (IF hasNull THEN "float64" ELSE "int64")
        ELSE IF \A x \in nn : x.t \in {"int", "float"} THEN "float64"
        ELSE "object"

\* a cell of a float64 column
AsFloat(x) == IF x.t = "int" THEN PyFloat(2 * x.v) ELSE x

\* pd.json_normalize(values, max_level=1).  A parsed value is [k, rec]: a
\* JSON object (k = "object", rec its fields, none of them a nested object)
\* or a JSON array (k = "array"), on which json_normalize raises: it asks
\* each value for its .values() or .items()
json_normalize(values) ==
    LET records == [i \in DOMAIN values |-> values[i].rec]
        cs == UNION {DOMAIN records[i] : i \in DOMAIN records}
        raw(c) == [i \in DOMAIN records |->
                     IF c \in DOMAIN records[i] THEN records[i][c] ELSE Null]
        dt(c) == InferDtype(raw(c))
    IN  IF \E i \in DOMAIN values : values[i].k # "object"
        THEN Raised("AttributeError")
        ELSE [n |-> Len(records),
              cols |-> cs,
              dtype |-> [c \in cs |-> dt(c)],
              data |-> [c \in cs |-> IF dt(c) = "float64"
                                     THEN MapCol(raw(c), AsFloat)
                                     ELSE raw(c)],
              error |-> ""]

\* df.empty
Empty(f) == f.n = 0 \/ f.cols = {}


----------------------------------------------------------------------------
(* normalize_chunk, one operator per loop of the function.  Each loop      *)
(* rewrites whole columns, so each operator maps a frame to a frame.       *)

\* lambda x: json.dumps(x) if isinstance(x, (list, dict)) else x
DumpIfObjecty(x) == IF x.t = "list" THEN json_dumps(x) ELSE x

\* for col in OBJECTY_TO_JSON
StringifyKnown(f) ==
    [f EXCEPT !.data = [c \in f.cols |->
        IF c \in OBJECTY_TO_JSON THEN MapCol(f.data[c], DumpIfObjecty)
        ELSE f.data[c]]]

\* for col in df.columns: object columns whose first 10 non-null values hold a list
StringifyPeeked(f) ==
    [f EXCEPT !.data = [c \in f.cols |->
        IF /\ f.dtype[c] = "object"
           /\ \E x \in Range(DropnaHead(f.data[c], PEEK_NONSCALAR)) : x.t = "list"
        THEN MapCol(f.data[c], DumpIfObjecty)
        ELSE f.data[c]]]

\* one value under pd.to_numeric(errors="coerce")
NumericValue(x) ==
    CASE x.t \in {"int", "float"} -> x
      [] x.t = "str" -> ParseNumber(x.v)
      [] x.t = "bool" -> PyInt(IF x.v THEN 1 ELSE 0)
      [] OTHER -> Null

\* pd.to_numeric(series, errors="coerce"): [dtype, data]
to_numeric(dt, s) ==
    IF dt \in {"int64", "float64", "bool"} THEN [dtype |-> dt, data |-> s]
    ELSE LET num == MapCol(s, NumericValue)
         IN  IF \A i \in DOMAIN num : num[i].t = "int"
             THEN [dtype |-> "int64", data |-> num]
             ELSE [dtype |-> "float64", data |-> MapCol(num, AsFloat)]

\* for col in NUMERIC_AS_FLOAT
CoerceFloats(f) ==
    LET r(c) == to_numeric(f.dtype[c], f.data[c])
    IN  [f EXCEPT !.dtype = [c \in f.cols |->
                    IF c \in NUMERIC_AS_FLOAT THEN r(c).dtype ELSE f.dtype[c]],
                  !.data = [c \in f.cols |->
                    IF c \in NUMERIC_AS_FLOAT THEN r(c).data ELSE f.data[c]]]

\* whether series.astype("Int64") is a safe cast: every float is a whole number
SafeInt64(r) ==
    r.dtype = "float64" => \A x \in Range(r.data) : x.t = "float" => x.v % 2 = 0

\* one value under astype("Int64")
Int64Value(x) ==
    CASE x.t = "float" -> PyInt(x.v \div 2)
      [] x.t = "bool" -> PyInt(IF x.v THEN 1 ELSE 0)
      [] OTHER -> x

\* for col in NUMERIC_AS_INT: pd.to_numeric(...).astype("Int64")
CoerceInts(f) ==
    LET r(c) == to_numeric(f.dtype[c], f.data[c])
        ints == f.cols \cap NUMERIC_AS_INT
    IN  IF \E c \in ints : ~SafeInt64(r(c))
        THEN Raised("TypeError")
        ELSE [f EXCEPT !.dtype = [c \in f.cols |->
                         IF c \in ints THEN "Int64" ELSE f.dtype[c]],
                       !.data = [c \in f.cols |->
                         IF c \in ints THEN MapCol(r(c).data, Int64Value)
                         ELSE f.data[c]]]

\* a faulty variant of to_text that renders a boolean with str(): "True", "False"
to_text_str_of_bool(x) ==
    CASE isna(x) -> Null
      [] x.t = "list" -> json_dumps(x)
      [] x.t = "bool" -> PyStr(IF x.v THEN "True" ELSE "False")
      [] OTHER -> str_of(x)

\* _to_text.  A JSON document holds no bytes, so that branch has no value to
\* act on; a list reaches _to_text only as the text StringifyKnown made of it.
to_text(x) ==
    CASE isna(x) -> Null
      [] x.t = "list" -> json_dumps(x)
      [] x.t = "bool" -> PyStr(IF x.v THEN "true" ELSE "false")
      [] OTHER -> str_of(x)

\* for col in ALWAYS_STR_COLUMNS
ForceStrings(f) ==
    [f EXCEPT !.dtype = [c \in f.cols |->
                IF c \in ALWAYS_STR_COLUMNS THEN "string" ELSE f.dtype[c]],
              !.data = [c \in f.cols |->
                IF c \in ALWAYS_STR_COLUMNS THEN MapCol(f.data[c], to_text)
                ELSE f.data[c]]]

\* the condition of the second sanitize loop
LooksMixed(f, c) ==
    /\ f.dtype[c] = "object"
    /\ c \notin ALWAYS_STR_COLUMNS
    /\ \E x \in Range(DropnaHead(f.data[c], PEEK_MIXED)) : x.t = "bool"

\* for col in df.columns: remaining object columns that look mixed
SanitizeMixed(f) ==
    [f EXCEPT !.dtype = [c \in f.cols |->
                IF LooksMixed(f, c) THEN "string" ELSE f.dtype[c]],
              !.data = [c \in f.cols |->
                IF LooksMixed(f, c) THEN MapCol(f.data[c], to_text)
                ELSE f.data[c]]]

\* one value under pd.to_datetime(errors="coerce", utc=True); the date
\* columns of the model hold texts and nulls
DatetimeValue(x) == IF x.t = "str" THEN ParseTimestampUtc(x.v) ELSE Null

\* for c in DATE_COLS
ParseDatetimes(f) ==
    [f EXCEPT !.dtype = [c \in f.cols |->
                IF c \in DATE_COLS THEN "datetime64[ns, UTC]" ELSE f.dtype[c]],
              !.data = [c \in f.cols |->
                IF c \in DATE_COLS THEN MapCol(f.data[c], DatetimeValue)
                ELSE f.data[c]]]

\* Timestamp.date() of a UTC timestamp
DateOf(x) == IF isna(x) THEN Null ELSE PyDate(x.v \div 24)

\* df["epoch_date"] = df["epoch"].dt.date
AddEpochDate(f) ==
    IF "epoch" \notin f.cols THEN f
    ELSE LET cs == f.cols \cup {"epoch_date"}
         IN  [f EXCEPT !.cols = cs,
                       !.dtype = [c \in cs |->
                         IF c = "epoch_date" THEN "object" ELSE f.dtype[c]],
                       !.data = [c \in cs |->
                         IF c = "epoch_date" THEN MapCol(f.data["epoch"], DateOf)
                         ELSE f.data[c]]]

\* COLUMNS_TO_KEEP is None, so the reindex is never taken
normalize_chunk(records) ==
    LET f0 == json_normalize(records)
        f2 == CoerceInts(CoerceFloats(StringifyPeeked(StringifyKnown(f0))))
    IN  IF f0.error # "" THEN f0
        ELSE IF f2.error # "" THEN f2
        ELSE AddEpochDate(ParseDatetimes(SanitizeMixed(ForceStrings(f2))))

----------------------------------------------------------------------------
(* arrow_schema_for_df                                                     *)

ArrowType(c, dt) ==
    CASE dt = "datetime64[ns, UTC]" -> "timestamp[us, tz=UTC]"
      [] dt \in {"int64", "Int64"} -> "int64"
      [] dt = "float64" -> "double"
      [] dt = "bool" -> "bool"
      [] c = "epoch_date" -> "date32"
      [] OTHER -> "string"

arrow_schema_for_df(f) == [c \in f.cols |-> ArrowType(c, f.dtype[c])]

----------------------------------------------------------------------------
(* dedupe_keys                                                             *)

DedupeKeys(f) == SelectSeq(<<"satNo", "epoch", "idElset">>, LAMBDA c : c \in f.cols)

\* the order of two cells of a key column, NaN and NaT last
CellLess(a, b) == ~isna(a) /\ (isna(b) \/ a.v < b.v)

RECURSIVE RowLess(_, _, _, _)
\* lexicographic order of rows i and j of f on the key columns ks
RowLess(f, ks, i, j) ==
    IF ks = <<>> THEN FALSE
    ELSE LET a == f.data[Head(ks)][i]
             b == f.data[Head(ks)][j]
         IN  \/ CellLess(a, b)
             \/ a = b /\ RowLess(f, Tail(ks), i, j)

SameKey(f, ks, i, j) == \A k \in DOMAIN ks : f.data[ks[k]][i] = f.data[ks[k]][j]

RowOrders(n) ==
    {p \in [1..n -> 1..n] : \A i, j \in 1..n : p[i] = p[j] => i = j}

\* whether df.sort_values(keys) keeps rows of equal key in their input order:
\* with several keys pandas sorts with a lexsort, which is stable; with one
\* key it sorts with kind="quicksort", which makes no promise about ties
SortIsStable(ks) == Len(ks) > 1

\* the row orders df.sort_values(keys) can produce
SortOutcomes(f, ks) ==
    {p \in RowOrders(f.n) :
        \A i, j \in 1..f.n : i < j =>
            /\ ~RowLess(f, ks, p[j], p[i])
            /\ (SortIsStable(ks) /\ SameKey(f, ks, p[i], p[j])) => p[i] < p[j]}

\* the rows of order p that drop_duplicates(subset=keys, keep="last") keeps
KeepLast(f, ks, p) ==
    SelectSeq(p, LAMBDA r :
        \A k \in 1..f.n :
            (CHOOSE i \in 1..f.n : p[i] = r) < k => ~SameKey(f, ks, r, p[k]))

\* the frame made of rows idx of f, in that order
TakeRows(f, idx) ==
    [f EXCEPT !.n = Len(idx),
              !.data = [c \in f.cols |-> [k \in 1..Len(idx) |-> f.data[c][idx[k]]]]]

\* the frames dedupe_keys(df) can return
dedupe_keys(f) ==
    LET ks == DedupeKeys(f)
    IN  IF ks = <<>> THEN {f}
        ELSE {TakeRows(f, KeepLast(f, ks, p)) : p \in SortOutcomes(f, ks)}

----------------------------------------------------------------------------
(* write_chunk                                                             *)

\* whether pa.Table.from_pandas(df, schema) can convert column c: a column
\* typed string must hold texts, a column typed date32 must hold dates
Convertible(f, c) ==
    LET ty == ArrowType(c, f.dtype[c])
    IN  \A x \in Range(f.data[c]) :
            \/ isna(x)
            \/ /\ ty = "string" => x.t = "str"
               /\ ty = "date32" => x.t = "date"

\* the directory of a row: key=value for the partition column, with
\* pyarrow's fallback name for a null value, and the root without one
PartitionDir(f, i) ==
    IF "epoch_date" \notin f.cols THEN [key |-> "", val |-> ""]
    ELSE [key |-> "epoch_date",
          val |-> IF isna(f.data["epoch_date"][i]) THEN "__HIVE_DEFAULT_PARTITION__"
                  ELSE Lookup(DateText, f.data["epoch_date"][i].v, "?")]

\* the write pq.write_to_dataset makes: the schema, and per directory the
\* rows of the new file (a new, uniquely named file in each directory)
WrittenTable(f) ==
    LET dirs == {PartitionDir(f, i) : i \in 1..f.n}
        idx(d) == SelectSeq([i \in 1..f.n |-> i], LAMBDA i : PartitionDir(f, i) = d)
    IN  [schema |-> arrow_schema_for_df(f),
         parts |-> {[dir |-> d,
                     rows |-> [k \in 1..Len(idx(d)) |-> Row(f, idx(d)[k])]] : d \in dirs}]

----------------------------------------------------------------------------
(* The record source.  A file is [lead, fmt, body]: lead whitespace bytes, *)
(* then either lines (fmt = "lines": body holds one entry per line) or one *)
(* JSON array on a single line (fmt = "array": body holds one entry per    *)
(* element).  An entry is [k, rec] with k one of "blank" (an empty or      *)
(* whitespace-only line), "comment" (a line that starts with '#'),         *)
(* "object" (a JSON object, rec its fields) and "malformed" (text that is  *)
(* no JSON).                                                               *)

Entry(k) == [k |-> k, rec |-> <<>>]
Object(r) == [k |-> "object", rec |-> r]

\* f.read(1)
FirstByte(file) ==
    CASE file.lead > 0 -> " "
      [] file.fmt = "array" -> "["
      [] file.body = <<>> -> ""
      [] Head(file.body).k = "blank" -> "\n"
      [] Head(file.body).k = "comment" -> "#"
      [] OTHER -> "{"

detect_format(file) == IF FirstByte(file) = "[" THEN "array" ELSE "ndjson"

\* The iterator a generator function returns: nothing of the file is read
\* before the first next().  mode says which loop will run over body.
iter_records_ndjson(file) ==
    [mode |-> IF file.fmt = "lines" THEN "lines" ELSE "line_of_array",
     body |-> file.body, pos |-> 1, raised |-> FALSE]

iter_records_array(file, ijson) ==
    [mode |-> IF ijson THEN "ijson" ELSE "json_load",
     body |-> file.body, pos |-> 1, raised |-> FALSE]

iter_records_any(file, ijson) ==
    IF detect_format(file) = "array" THEN iter_records_array(file, ijson)
    ELSE iter_records_ndjson(file)

HasMalformed(body) == \E i \in DOMAIN body : body[i].k = "malformed"

\* a faulty variant of SkippedLine that also skips a line that starts with '#'
SkippedLineOrComment(e) == e.k \in {"blank", "comment"}

\* a faulty variant of SkippedLine that also skips a line json.loads rejects
SkippedLineOrMalformed(e) == e.k \in {"blank", "malformed"}

\* line = line.strip(); "if line:" is false
SkippedLine(e) == e.k = "blank"

\* the first line at or after pos that the loop does not skip
\* (Len(body) + 1 when there is none)
NextNonBlank(body, pos) ==
    IF \E i \in pos..Len(body) : ~SkippedLine(body[i])
    THEN CHOOSE i \in pos..Len(body) :
            /\ ~SkippedLine(body[i])
            /\ \A j \in pos..(i - 1) : SkippedLine(body[j])
    ELSE Len(body) + 1

\* the loop of iter_records_ndjson over the lines of the file
NextOfLines(it) ==
    LET i == NextNonBlank(it.body, it.pos)
    IN  IF i > Len(it.body)
        THEN [kind |-> "stop", value |-> Entry("blank"), it |-> [it EXCEPT !.pos = i]]
        ELSE IF it.body[i].k = "object"
        THEN [kind |-> "value", value |-> it.body[i], it |-> [it EXCEPT !.pos = i + 1]]
        ELSE [kind |-> "raise", value |-> Entry("blank"),
              it |-> [it EXCEPT !.pos = i, !.raised = TRUE]]

\* iter_records_ndjson over a file that is one line holding a JSON array:
\* json.loads(line) returns the whole array as one value
NextOfLineOfArray(it) ==
    IF it.pos > 1
    THEN [kind |-> "stop", value |-> Entry("blank"), it |-> it]
    ELSE IF HasMalformed(it.body)
    THEN [kind |-> "raise", value |-> Entry("blank"), it |-> [it EXCEPT !.raised = TRUE]]
    ELSE [kind |-> "value", value |-> Entry("array"), it |-> [it EXCEPT !.pos = 2]]

\* iter_records_array: ijson.items streams the elements; json.load parses
\* the whole document before the first element is yielded
NextOfArray(it) ==
    IF it.pos > Len(it.body)
    THEN [kind |-> "stop", value |-> Entry("blank"), it |-> it]
    ELSE IF \/ it.body[it.pos].k = "malformed"
            \/ it.mode = "json_load" /\ it.pos = 1 /\ HasMalformed(it.body)
    THEN [kind |-> "raise", value |-> Entry("blank"), it |-> [it EXCEPT !.raised = TRUE]]
    ELSE [kind |-> "value", value |-> it.body[it.pos],
          it |-> [it EXCEPT !.pos = it.pos + 1]]

\* next(rec_iter): a value, StopIteration, or the exception of the parser
NextRecord(it) ==
    CASE it.mode = "lines" -> NextOfLines(it)
      [] it.mode = "line_of_array" -> NextOfLineOfArray(it)
      [] OTHER -> NextOfArray(it)

----------------------------------------------------------------------------
(* process_all_json                                                        *)

\* the file names of the model, in the order of their texts
FileNames == <<"a.json", "b.json", "c.json">>

\* a faulty variant of SortedFiles that takes the files in descending order
SortedFilesDescending(names) ==
    LET asc == SelectSeq(FileNames, LAMBDA f : f \in names)
    IN  [i \in 1..Len(asc) |-> asc[Len(asc) + 1 - i]]

\* sorted(list(raw_dir.glob("*.json")))
SortedFiles(names) == SelectSeq(FileNames, LAMBDA f : f \in names)

NoIterator == [mode |-> "none", body |-> <<>>, pos |-> 1, raised |-> FALSE]

Event(op, f, j, c) == [op |-> op, file |-> f, j |-> j, chunk |-> c]

Logged(e) == [hist EXCEPT !.log = Append(hist.log, e)]

\* json_files = sorted(...); if not json_files: return
Start ==
    /\ pc = "start"
    /\ todo' = SortedFiles(DOMAIN files)
    /\ pc' = IF DOMAIN files = {} THEN "done" ELSE "next_file"
    /\ UNCHANGED <<files, chunk_size, cur, src, buf, chunk, df, has_ijson, dataset, hist>>

\* for i, fp in enumerate(json_files): rec_iter = iter_records_any(fp)
NextFile ==
    /\ pc = "next_file"
    /\ IF todo = <<>>
       THEN /\ pc' = "done"
            /\ UNCHANGED <<todo, cur, src, hist>>
       ELSE /\ cur' = Head(todo)
            /\ todo' = Tail(todo)
            /\ src' = iter_records_any(files[Head(todo)], has_ijson)
            /\ hist' = [hist EXCEPT !.pulled = <<>>, !.yielded = <<>>,
                                    !.log = Append(hist.log, Event("file", Head(todo), 0, <<>>))]
            /\ pc' = "read"
    /\ buf' = <<>>
    /\ UNCHANGED <<files, chunk_size, chunk, df, has_ijson, dataset>>

\* a faulty variant of ChunkFull that yields one record late
ChunkFullLate(b) == Len(b) > chunk_size

\* if len(buf) >= chunk_size
ChunkFull(b) == Len(b) >= chunk_size

\* to_chunks: one turn of "for rec in iterable", or the end of the loop
ReadRecord ==
    /\ pc = "read"
    /\ LET r == NextRecord(src)
           full == Append(buf, r.value)
           j == Len(hist.pulled) + 1
       IN  /\ src' = r.it
           /\ CASE r.kind = "raise" ->
                     /\ pc' = "failed"
                     /\ UNCHANGED <<buf, chunk, hist>>
                [] r.kind = "stop" /\ buf = <<>> ->
                     /\ pc' = "next_file"
                     /\ UNCHANGED <<buf, chunk, hist>>
                [] r.kind = "stop" /\ buf # <<>> ->
                     /\ chunk' = buf
                     /\ buf' = <<>>
                     /\ hist' = [hist EXCEPT !.yielded = Append(hist.yielded, buf)]
                     /\ pc' = "normalize"
                [] r.kind = "value" /\ ChunkFull(full) ->
                     /\ chunk' = full
                     /\ buf' = <<>>
                     /\ hist' = [hist EXCEPT
                            !.pulled = Append(hist.pulled, r.value),
                            !.yielded = Append(hist.yielded, full),
                            !.log = Append(hist.log, Event("read", cur, j, <<r.value>>))]
                     /\ pc' = "normalize"
                [] OTHER ->
                     /\ buf' = full
                     /\ hist' = [hist EXCEPT
                            !.pulled = Append(hist.pulled, r.value),
                            !.log = Append(hist.log, Event("read", cur, j, <<r.value>>))]
                     /\ pc' = "read"
                     /\ UNCHANGED chunk
    /\ UNCHANGED <<files, chunk_size, todo, cur, df, has_ijson, dataset>>

\* df = normalize_chunk(chunk); if not df.empty: ...
Normalize ==
    /\ pc = "normalize"
    /\ df' = normalize_chunk(chunk)
    /\ pc' = CASE df'.error # "" -> "failed"
               [] Empty(df') -> "read"
               [] OTHER -> "dedupe"
    /\ hist' = Logged(Event("normalize", cur, Len(hist.yielded), chunk))
    /\ UNCHANGED <<files, chunk_size, todo, cur, src, buf, chunk, has_ijson, dataset>>

\* df = dedupe_keys(df)
Dedupe ==
    /\ pc = "dedupe"
    /\ df' \in dedupe_keys(df)
    /\ pc' = "write"
    /\ hist' = [Logged(Event("dedupe", cur, Len(hist.yielded), chunk)) EXCEPT !.normalized = df]
    /\ UNCHANGED <<files, chunk_size, todo, cur, src, buf, chunk, has_ijson, dataset>>

\* write_chunk(proc_dir, df)
Write ==
    /\ pc = "write"
    /\ IF Empty(df)
       THEN /\ pc' = "read"
            /\ UNCHANGED <<dataset, hist>>
       ELSE IF \E c \in df.cols : ~Convertible(df, c)
       THEN /\ pc' = "failed"
            /\ UNCHANGED <<dataset, hist>>
       ELSE /\ dataset' = Append(dataset, WrittenTable(df))
            /\ hist' = Logged(Event("write", cur, Len(hist.yielded), chunk))
            /\ pc' = "read"
    /\ UNCHANGED <<files, chunk_size, todo, cur, src, buf, chunk, df, has_ijson>>

Next == Start \/ NextFile \/ ReadRecord \/ Normalize \/ Dedupe \/ Write

\* the state process_all_json starts in, given the run's inputs
InitWith(fs, cs, ij) ==
    /\ files = fs
    /\ chunk_size = cs
    /\ has_ijson = ij
    /\ todo = <<>>
    /\ cur = ""
    /\ src = NoIterator
    /\ buf = <<>>
    /\ chunk = <<>>
    /\ df = NoFrame
    /\ pc = "start"
    /\ dataset = <<>>
    /\ hist = [pulled |-> <<>>, yielded |-> <<>>, log |-> <<>>, normalized |-> NoFrame]

----------------------------------------------------------------------------
(* Inputs.  Each specification runs process_all_json on a family of raw    *)
(* directories.  process_all_json passes chunk_size=50000; the families    *)
(* whose files are to span several chunks draw a small chunk size instead. *)

MaxLines == 2      \* lines per file, specification Spec
MaxSrcLines == 4   \* lines of the file, specification SpecSource
MaxItems == 2      \* elements of the array, specification SpecSource
MaxLead == 1       \* leading whitespace bytes, specification SpecSource
MaxChunk == 2      \* chunk sizes 1..MaxChunk, Spec, SpecSource and SpecSchema
MaxRows == 2       \* records per batch, SpecPartition and SpecCoerce
MaxKeyRows == 3    \* records per batch, SpecDedupe
MaxBatchRecs == 3  \* records of the file, SpecSchema
MaxTail == 2       \* values after the padding, SpecText

DEFAULT_CHUNK == 50000

BoundedSeq(S, n) == UNION {[1..k -> S] : k \in 0..n}

Absent == [t |-> "absent", v |-> 0]

\* the JSON object that holds the fields of o that are not Absent
RecordOf(o) == [c \in {c \in DOMAIN o : o[c] # Absent} |-> o[c]]

RecA == [c \in {"satNo"} |-> PyInt(5)]
RecB == [c \in {"satNo", "apogee"} |-> IF c = "satNo" THEN PyInt(7) ELSE PyFloat(11)]
RecEmpty == <<>>

LinesFile(lead, body) == [lead |-> lead, fmt |-> "lines", body |-> body]
ArrayFile(lead, body) == [lead |-> lead, fmt |-> "array", body |-> body]

\* one file a.json holding a JSON array of the given records
OneArray(records) ==
    [f \in {"a.json"} |-> ArrayFile(0, [i \in DOMAIN records |-> Object(records[i])])]

(* Spec: up to two files of lines, each line an object or malformed.       *)
DriverLines == {Object(RecA), Object(RecB), Object(RecEmpty), Entry("malformed")}

DriverFiles == {LinesFile(0, b) : b \in BoundedSeq(DriverLines, MaxLines)}

Init ==
    \E names \in {{}, {"a.json"}, {"b.json", "a.json"}} :
    \E fs \in [names -> DriverFiles] :
    \E cs \in 1..MaxChunk :
        InitWith(fs, cs, TRUE)

Spec == Init /\ [][Next]_vars

(* SpecSource: one file, any mix of lines or an array, with or without     *)
(* leading whitespace, with and without ijson.                             *)
SourceLines ==
    {Entry("blank"), Entry("comment"), Object(RecA), Object(RecB), Entry("malformed")}

SourceItems == {Object(RecA), Object(RecB), Entry("malformed")}

InitSource ==
    \/ \E lead \in 0..MaxLead, b \in BoundedSeq(SourceLines, MaxSrcLines), cs \in 1..MaxChunk :
          InitWith([f \in {"a.json"} |-> LinesFile(lead, b)], cs, TRUE)
    \/ \E lead \in 0..MaxLead, b \in BoundedSeq(SourceItems, MaxItems), ij \in BOOLEAN :
          InitWith([f \in {"a.json"} |-> ArrayFile(lead, b)], 1, ij)

SpecSource == InitSource /\ [][Next]_vars

(* SpecDedupe: one batch of up to MaxKeyRows records over the key columns  *)
(* and tags, which tells the rows of one key apart.                        *)
KeyRecords ==
    {RecordOf([c \in {"satNo", "epoch", "idElset", "tags"} |->
        CASE c = "satNo" -> s [] c = "epoch" -> e [] c = "idElset" -> i [] OTHER -> t]) :
        s \in {Absent, PyInt(5), PyInt(7)},
        e \in {Absent, PyStr("2024-01-01T00:00:00Z")},
        i \in {Absent, PyInt(5)},
        t \in {PyList(<<"x", "y">>), PyList(<<>>)}}

InitDedupe ==
    \E b \in BoundedSeq(KeyRecords, MaxKeyRows) : InitWith(OneArray(b), DEFAULT_CHUNK, FALSE)

SpecDedupe == InitDedupe /\ [][Next]_vars

(* SpecCoerce: one batch of up to MaxRows records over a float column, an  *)
(* integer column and a date column, with values that parse and values     *)
(* that do not.                                                            *)
CoerceRecords ==
    {RecordOf([c \in {"apogee", "satNo", "epoch"} |->
        CASE c = "apogee" -> a [] c = "satNo" -> s [] OTHER -> e]) :
        a \in {Absent, PyInt(5), PyFloat(11), PyStr("5.5"), PyStr("n/a")},
        s \in {Absent, PyInt(5), PyFloat(10), PyFloat(11), PyStr("7"), PyStr("n/a")},
        e \in {Absent, PyStr("2024-01-01T00:00:00Z"), PyStr("n/a")}}

InitCoerce ==
    \E b \in BoundedSeq(CoerceRecords, MaxRows) : InitWith(OneArray(b), DEFAULT_CHUNK, FALSE)

SpecCoerce == InitCoerce /\ [][Next]_vars

(* SpecPartition: one batch of up to MaxRows records with or without an    *)
(* epoch, spelled with several UTC offsets, null, or unparsable.           *)
EpochTexts == {IsoText[i][1] : i \in DOMAIN IsoText}

PartitionRecords ==
    {RecordOf([c \in {"epoch", "satNo"} |-> IF c = "epoch" THEN e ELSE s]) :
        e \in {Absent, Null, PyStr("n/a")} \cup {PyStr(x) : x \in EpochTexts},
        s \in {Absent, PyInt(5)}}

InitPartition ==
    \E b \in BoundedSeq(PartitionRecords, MaxRows) :
        InitWith(OneArray(b), DEFAULT_CHUNK, FALSE)

SpecPartition == InitPartition /\ [][Next]_vars

(* SpecSchema: a file of up to MaxBatchRecs records with a float column,   *)
(* read in chunks of 1..MaxChunk records.                                  *)
SchemaRecords ==
    {RecordOf([c \in {"satNo", "apogee"} |-> IF c = "satNo" THEN PyInt(5) ELSE a]) :
        a \in {Absent, PyInt(5), PyFloat(10), PyFloat(11), PyStr("n/a")}}

InitSchema ==
    \E b \in BoundedSeq(SchemaRecords, MaxBatchRecs), cs \in 1..MaxChunk :
        InitWith(OneArray(b), cs, FALSE)

SpecSchema == InitSchema /\ [][Next]_vars

(* SpecText: one batch over uct, a column of the always-string list, and   *)
(* algorithm, a column of no list.  A column is a run of one padding       *)
(* value, of length 0, PEEK_MIXED - 1 or PEEK_MIXED, and then up to        *)
(* MaxTail arbitrary values; batches of both columns have up to MaxTail    *)
(* rows.                                                                   *)
TextValues == {Null, PyBool(TRUE), PyBool(FALSE), PyInt(5), PyStr("abc")}

PairedValues == {Null, PyBool(TRUE), PyStr("abc")}

Padding(k, x) == [i \in 1..k |-> x]

PaddedColumns ==
    {Padding(k, x) \o t :
        k \in {0, PEEK_MIXED - 1, PEEK_MIXED},
        x \in {Null, PyInt(5), PyStr("abc")},
        t \in BoundedSeq(TextValues, MaxTail)}

OneColumn(c, col) == [i \in DOMAIN col |-> [x \in {c} |-> col[i]]]

TwoColumns(col1, col2) ==
    [i \in DOMAIN col1 |-> [c \in {"uct", "algorithm"} |->
                              IF c = "uct" THEN col1[i] ELSE col2[i]]]

TextBatches ==
    {OneColumn(c, col) : c \in {"uct", "algorithm"}, col \in PaddedColumns}
    \cup UNION {{TwoColumns(c1, c2) : c1 \in [1..k -> TextValues], c2 \in [1..k -> PairedValues]} :
                k \in 1..MaxTail}

InitText ==
    \E b \in TextBatches : InitWith(OneArray(b), DEFAULT_CHUNK, FALSE)

SpecText == InitText /\ [][Next]_vars

----------------------------------------------------------------------------
(* Definitions the properties are stated with.  They describe the input    *)
(* files and the log of the run and use none of the operations above.      *)

RECURSIVE Flatten(_)
Flatten(ss) == IF ss = <<>> THEN <<>> ELSE Head(ss) \o Flatten(Tail(ss))

Min(a, b) == IF a < b THEN a ELSE b

\* the JSON objects among entries, in order
ObjectsOf(entries) == SelectSeq(entries, LAMBDA e : e.k = "object")

\* the first line that is neither blank nor a JSON object (Len + 1 if none)
FirstBad(body) ==
    LET bad == {i \in DOMAIN body : body[i].k \notin {"blank", "object"}}
    IN  IF bad = {} THEN Len(body) + 1
        ELSE CHOOSE i \in bad : \A j \in bad : i <= j

\* the j-th group of cs consecutive elements of s
Group(s, cs, j) == SubSeq(s, (j - 1) * cs + 1, Min(j * cs, Len(s)))

\* the groups of s that hold cs elements
FullGroups(s, cs) == [j \in 1..(Len(s) \div cs) |-> Group(s, cs, j)]

\* all groups of s, the last one possibly shorter
AllGroups(s, cs) == [j \in 1..((Len(s) + cs - 1) \div cs) |-> Group(s, cs, j)]

\* a batch with at least one field: its frame is not empty
HasFields(c) == \E i \in DOMAIN c : c[i].rec # <<>>

EventsOf(op) == SelectSeq(hist.log, LAMBDA e : e.op = op)

ChunksOf(events) == [i \in DOMAIN events |-> events[i].chunk]

Rank(f) == CHOOSE i \in DOMAIN FileNames : FileNames[i] = f

\* the first non-whitespace byte of a file ("" when it has none)
FirstNonWhitespaceByte(file) ==
    LET rest == SelectSeq(file.body, LAMBDA e : e.k # "blank")
    IN  CASE file.fmt = "array" -> "["
          [] rest = <<>> -> ""
          [] Head(rest).k = "comment" -> "#"
          [] OTHER -> "{"

----------------------------------------------------------------------------
(* Properties of the record source and of to_chunks, under SpecSource      *)

\* C5, as stated: reading a newline-delimited file whose lines are blank
\* lines, comment lines and JSON objects never fails, and yields exactly the
\* objects of the file, in file order.
C5_CommentsSkipped ==
    (src.mode = "lines" /\ ~HasMalformed(src.body)) =>
        /\ ~src.raised
        /\ hist.pulled = ObjectsOf(SubSeq(src.body, 1, src.pos - 1))

\* C5, amended: the source of a newline-delimited file skips the blank lines
\* and yields the JSON objects in file order up to the first line that is
\* neither; on that line, a line that starts with '#' included, it raises
\* and the run fails; a file without such a line is read to its end.
C5_BlankSkippedCommentRaises ==
    src.mode = "lines" =>
        /\ src.pos <= FirstBad(src.body)
        /\ hist.pulled = ObjectsOf(SubSeq(src.body, 1, src.pos - 1))
        /\ src.raised <=> (pc = "failed" /\ src.pos = FirstBad(src.body)
                                          /\ src.pos <= Len(src.body))
        /\ (pc \in {"next_file", "done"} /\ buf = <<>> /\ src.pos > Len(src.body))
              => hist.pulled = ObjectsOf(src.body)

\* the scenario of C5 up to the comment line: a blank line was skipped, an
\* object was yielded, and the comment line made the source raise
C5_Witness ==
    /\ src.mode = "lines"
    /\ src.raised
    /\ src.body[src.pos].k = "comment"
    /\ \E i \in 1..(src.pos - 1) : src.body[i].k = "blank"
    /\ Len(hist.pulled) >= 1
    /\ Len(ObjectsOf(src.body)) = 2

\* C8, as stated: the file is read as an array of objects exactly when its
\* first non-whitespace byte is '['.
C8_FirstNonWhitespaceDecides ==
    cur # "" =>
        /\ detect_format(files[cur]) = "array"
              <=> FirstNonWhitespaceByte(files[cur]) = "["
        /\ src.mode \in {"ijson", "json_load"}
              <=> FirstNonWhitespaceByte(files[cur]) = "["

\* C9: the chunks yielded so far, followed by the buffer, are the records
\* consumed so far; no chunk is empty or longer than chunk_size, every chunk
\* but the last holds chunk_size records; once the source is exhausted the
\* buffer is empty and the chunks are the groups of the whole sequence.
C9_ChunksPartitionInput ==
    /\ Flatten(hist.yielded) \o buf = hist.pulled
    /\ \A i \in DOMAIN hist.yielded :
          /\ Len(hist.yielded[i]) >= 1
          /\ Len(hist.yielded[i]) <= chunk_size
          /\ i < Len(hist.yielded) => Len(hist.yielded[i]) = chunk_size
    /\ Len(buf) < chunk_size
    /\ (pc \in {"next_file", "done"} /\ cur # "")
          => /\ buf = <<>>
             /\ hist.yielded = AllGroups(hist.pulled, chunk_size)

\* a file read to its end in two chunks or more, the last one short
C9_Witness ==
    /\ pc = "next_file"
    /\ cur # ""
    /\ Len(hist.yielded) >= 2
    /\ Len(hist.yielded[Len(hist.yielded)]) < chunk_size

----------------------------------------------------------------------------
(* Properties of process_all_json, under Spec                              *)

\* the files that precede f in the order of their names
FilesBefore(f) == SelectSeq(FileNames, LAMBDA g : g \in DOMAIN files /\ Rank(g) < Rank(f))

\* the batches of file f that a run writes when it reads f to its end
BatchesOf(f) ==
    SelectSeq(AllGroups(ObjectsOf(files[f].body), chunk_size), HasFields)

\* the batches of file f that are complete before its first malformed line
BatchesBeforeError(f) ==
    LET b == files[f].body
    IN  SelectSeq(FullGroups(ObjectsOf(SubSeq(b, 1, FirstBad(b) - 1)), chunk_size),
                  HasFields)

\* whether table t is what the pipeline writes for batch c
TableOf(t, c) ==
    \E d \in dedupe_keys(normalize_chunk(c)) : t = WrittenTable(d)

\* C7: the source never reads past a malformed record; once it has met one
\* in file cur the run has failed, and the batches written are exactly all
\* batches of the files before cur followed by the batches of cur that were
\* complete before the malformed record, each held by the dataset.
C7_MalformedStopsRun ==
    /\ src.mode = "lines" => src.pos <= FirstBad(src.body)
    /\ src.raised =>
          LET before == FilesBefore(cur)
              expect == Flatten([i \in DOMAIN before |-> BatchesOf(before[i])])
                            \o BatchesBeforeError(cur)
          IN  /\ pc = "failed"
              /\ ChunksOf(EventsOf("write")) = expect
              /\ Len(dataset) = Len(expect)
              /\ \A k \in DOMAIN dataset : TableOf(dataset[k], expect[k])

\* the source has raised in the second file after batches of both files
\* were written
C7_Witness ==
    /\ src.raised
    /\ cur = "b.json"
    /\ \E e \in Range(EventsOf("write")) : e.file = "a.json"
    /\ \E e \in Range(EventsOf("write")) : e.file = "b.json"

\* the records read from file f so far, in the order they were read
ReadOf(f) ==
    Flatten(ChunksOf(SelectSeq(hist.log, LAMBDA e : e.op = "read" /\ e.file = f)))

\* the position in the log of the event op of batch j of file f (0 if none)
At(op, f, j) ==
    LET ps == {p \in DOMAIN hist.log :
                  hist.log[p].op = op /\ hist.log[p].file = f /\ hist.log[p].j = j}
    IN  IF ps = {} THEN 0 ELSE CHOOSE p \in ps : TRUE

\* C10: files are opened in ascending order of their names; every event
\* belongs to the file opened last, so no batch of a file is handled before
\* the last batch of the file before it; batch j of a file is the j-th group
\* of chunk_size records of that file, it is normalized, then deduplicated,
\* then written, once each; and a record is read only after every earlier
\* batch of the file was normalized and, unless its frame was empty, written.
C10_BatchesInOrder ==
    LET log == hist.log
        opened == EventsOf("file")
    IN  /\ \A i, k \in DOMAIN opened : i < k => Rank(opened[i].file) < Rank(opened[k].file)
        /\ \A p \in DOMAIN log :
              log[p].op # "file" =>
                 \E q \in 1..(p - 1) :
                    /\ log[q] = Event("file", log[p].file, 0, <<>>)
                    /\ \A m \in (q + 1)..p : log[m].op # "file"
        /\ \A p \in DOMAIN log :
              LET e == log[p]
              IN  /\ e.op \in {"normalize", "dedupe", "write"} =>
                        /\ e.chunk = Group(ReadOf(e.file), chunk_size, e.j)
                        /\ At(e.op, e.file, e.j) = p
                  /\ e.op = "dedupe" =>
                        At("normalize", e.file, e.j) \in 1..(p - 1)
                  /\ e.op = "write" =>
                        At("dedupe", e.file, e.j) \in 1..(p - 1)
                  /\ e.op \in {"normalize", "read"} =>
                        \A j \in 1..(IF e.op = "read" THEN (e.j - 1) \div chunk_size
                                     ELSE e.j - 1) :
                           /\ At("normalize", e.file, j) \in 1..(p - 1)
                           /\ HasFields(Group(ReadOf(e.file), chunk_size, j))
                                 => At("write", e.file, j) \in 1..(p - 1)

\* a finished run over two files that wrote two batches of the first file
\* and one of the second
C10_Witness ==
    /\ pc = "done"
    /\ Len(SelectSeq(EventsOf("write"), LAMBDA e : e.file = "a.json")) >= 2
    /\ \E e \in Range(EventsOf("write")) : e.file = "b.json"

----------------------------------------------------------------------------
(* Properties of dedupe_keys, under SpecDedupe                             *)

KeyOf(f, ks, i) == [k \in DOMAIN ks |-> f.data[ks[k]][i]]

\* the last row of f whose key is that of row i
LastWithKey(f, ks, i) ==
    CHOOSE j \in 1..f.n :
        /\ SameKey(f, ks, i, j)
        /\ \A m \in 1..f.n : SameKey(f, ks, i, m) => m <= j

\* C1, as stated: when a key column is present, the output of dedupe_keys
\* has no two rows of one key, has a row for every key of the input, and
\* the row of a key is the last input row with that key.
C1_LaterDuplicateKept ==
    LET in == hist.normalized
        ks == DedupeKeys(in)
    IN  (pc = "write" /\ ks # <<>>) =>
            /\ \A i, j \in 1..df.n : KeyOf(df, ks, i) = KeyOf(df, ks, j) => i = j
            /\ \A i \in 1..in.n : \E j \in 1..df.n :
                  /\ KeyOf(df, ks, j) = KeyOf(in, ks, i)
                  /\ Row(df, j) = Row(in, LastWithKey(in, ks, i))

----------------------------------------------------------------------------
(* Properties of the coercions of normalize_chunk, under SpecCoerce        *)

NumberTexts == {NumberText[i][2] : i \in DOMAIN NumberText}

\* whether raw value x parses as the type of column c
Parses(c, x) ==
    CASE c \in NUMERIC_AS_FLOAT ->
            x.t \in {"int", "float"} \/ (x.t = "str" /\ x.v \in NumberTexts)
      [] c \in NUMERIC_AS_INT ->
            \/ x.t = "int"
            \/ x.t = "float" /\ x.v % 2 = 0
            \/ x.t = "str" /\ x.v \in {"5", "7"}
      [] OTHER -> x.t = "str" /\ x.v \in EpochTexts

CoercedCols == NUMERIC_AS_FLOAT \cup NUMERIC_AS_INT \cup DATE_COLS

\* C2, as stated: normalize_chunk never raises on a batch over the float,
\* integer and date columns; its frame has a row for every record, a cell
\* is null where the value does not parse as the type of its column, and
\* the run goes on to deduplicate and write the batch.
C2_CoercionNeverRaises ==
    /\ pc # "failed"
    /\ pc = "dedupe" =>
          /\ df.n = Len(chunk)
          /\ \A i \in 1..Len(chunk) : \A c \in DOMAIN chunk[i].rec \cap CoercedCols :
                ~Parses(c, chunk[i].rec[c]) => isna(df.data[c][i])

----------------------------------------------------------------------------
(* Properties of the partitions write_chunk writes, under SpecPartition    *)

\* the calendar date, in UTC, of the instant each epoch text of the model
\* spells
UtcDateOfText ==
    << <<"2024-01-01T00:00:00Z", "2024-01-01">>,
       <<"2024-01-01T23:00:00-02:00", "2024-01-02">>,
       <<"2024-01-02T01:00:00+03:00", "2024-01-01">>,
       <<"2024-01-02T12:00:00Z", "2024-01-02">> >>

DateTexts == {DateText[i][2] : i \in DOMAIN DateText}

WrittenParts == UNION {dataset[k].parts : k \in DOMAIN dataset}

\* C3: a written row with an epoch lies under epoch_date=<the UTC date of
\* that epoch>, and every record whose epoch text spells an instant has a
\* row under the UTC date of that instant; a written row whose epoch is
\* null, or that has no epoch column, lies under no directory named by a
\* calendar date.
C3_PartitionIsUtcDate ==
    /\ \A part \in WrittenParts : \A i \in DOMAIN part.rows :
          LET r == part.rows[i]
          IN  IF "epoch" \in DOMAIN r /\ ~isna(r["epoch"])
              THEN part.dir = [key |-> "epoch_date",
                               val |-> Lookup(DateText, r["epoch"].v \div 24, "?")]
              ELSE part.dir.val \notin DateTexts
    /\ dataset # <<>> =>
          \A i \in DOMAIN chunk :
             LET rec == chunk[i].rec
             IN  ("epoch" \in DOMAIN rec /\ rec["epoch"].t = "str"
                     /\ rec["epoch"].v \in EpochTexts) =>
                 \E part \in WrittenParts :
                    /\ part.dir = [key |-> "epoch_date",
                                   val |-> Lookup(UtcDateOfText, rec["epoch"].v, "?")]
                    /\ \E k \in DOMAIN part.rows : ~isna(part.rows[k]["epoch"])

\* one write with a row whose UTC date is the day after the date its text
\* spells, and a row with a null epoch under the fallback directory
C3_Witness ==
    /\ \E i \in DOMAIN chunk :
          /\ "epoch" \in DOMAIN chunk[i].rec
          /\ chunk[i].rec["epoch"] = PyStr("2024-01-01T23:00:00-02:00")
    /\ \E part \in WrittenParts : part.dir = [key |-> "epoch_date", val |-> "2024-01-02"]
    /\ \E part \in WrittenParts :
          /\ part.dir.val = "__HIVE_DEFAULT_PARTITION__"
          /\ \E k \in DOMAIN part.rows : isna(part.rows[k]["epoch"])

----------------------------------------------------------------------------
(* Properties of arrow_schema_for_df, under SpecSchema                     *)

\* C4, as stated: a column that two written batches both hold has the same
\* physical type in both.
C4_OneTypePerColumn ==
    \A i, j \in DOMAIN dataset :
        \A c \in DOMAIN dataset[i].schema \cap DOMAIN dataset[j].schema :
            dataset[i].schema[c] = dataset[j].schema[c]

----------------------------------------------------------------------------
(* Properties of the text columns of normalize_chunk, under SpecText       *)

RawColumn(c) ==
    [i \in DOMAIN chunk |-> IF c \in DOMAIN chunk[i].rec THEN chunk[i].rec[c] ELSE Null]

\* how a value reads in a text column: booleans as "true" and "false"
Rendered(x, y) ==
    CASE x.t = "bool" -> y = PyStr(IF x.v THEN "true" ELSE "false")
      [] isna(x) -> isna(y)
      [] OTHER -> y.t = "str"

IsTextColumn(c) ==
    /\ df.dtype[c] = "string"
    /\ \A i \in 1..df.n : Rendered(RawColumn(c)[i], df.data[c][i])

FixedLists == ALWAYS_STR_COLUMNS \cup CoercedCols \cup OBJECTY_TO_JSON

\* C6, as stated: in the frame of normalize_chunk every column of the
\* always-string list, and every other column with a boolean among its
\* values, is a string column with its booleans rendered "true" or "false"
\* and its nulls kept.
C6_BooleansBecomeText ==
    pc = "dedupe" =>
        \A c \in df.cols :
            (c \in ALWAYS_STR_COLUMNS \/ \E x \in Range(RawColumn(c)) : x.t = "bool")
                => IsTextColumn(c)

\* C6, amended: every column of the always-string list is a string column
\* with its booleans rendered "true" or "false" and its nulls kept.  A
\* column of none of the fixed lists is such a string column exactly when
\* one of its first 20 non-null values is a boolean and not every one of
\* its cells holds a boolean; otherwise it is left as it was read: a column
\* of booleans only stays boolean, and a column whose first boolean comes
\* after 20 non-null values keeps its booleans.
C6_SampledBooleansBecomeText ==
    pc = "dedupe" =>
        \A c \in df.cols :
            LET raw == RawColumn(c)
                sampled == \E k \in DOMAIN raw :
                              /\ raw[k].t = "bool"
                              /\ Cardinality({m \in 1..k : ~isna(raw[m])}) <= 20
                allBool == \A k \in DOMAIN raw : raw[k].t = "bool"
            IN  /\ c \in ALWAYS_STR_COLUMNS => IsTextColumn(c)
                /\ c \notin FixedLists =>
                      IF sampled /\ ~allBool THEN IsTextColumn(c)
                      ELSE /\ df.dtype[c] # "string"
                           /\ \A i \in 1..df.n : raw[i].t = "bool" => df.data[c][i] = raw[i]
                           /\ allBool => df.dtype[c] = "bool"

\* a frame with a column of no list whose first boolean is its 21st
\* non-null value, beside a frame column still holding that boolean
C6_Witness ==
    /\ pc = "dedupe"
    /\ "algorithm" \in df.cols
    /\ df.n > PEEK_MIXED
    /\ \A i \in 1..PEEK_MIXED : df.data["algorithm"][i].t = "str"
    /\ df.data["algorithm"][PEEK_MIXED + 1].t = "bool"

====
